---------------------------- MODULE Spec2Model ----------------------------
(***************************************************************************)
(* Register-level model of the STM32F4 peripheral library:                 *)
(*   rcc_aj_stm32f4.c    (MCO_Config, RCC_System_Clock_Source_Config,      *)
(*                        system_clock_setting, systick_config_init,       *)
(*                        delay_ms_systick, delay_us_systick)              *)
(*   usart_aj_stm32f4.c  (usart_config)                                    *)
(*                                                                         *)
(* A 32-bit register (and every uint32_t value) is the set of the          *)
(* positions of its 1 bits, so that |, &, ~ and << are set operations      *)
(* that keep the 32-bit width.  The hardware is a set of environment       *)
(* actions (Hw...) that own the read-only status flags.                    *)
(***************************************************************************)
EXTENDS Integers, Sequences, FiniteSets, TLC

(***************************************************************************)
(* 32-bit words as sets of bit positions                                   *)
(***************************************************************************)
Bit == 0 .. 31

\* The powers of two below 2^31, and the words of the numbers below 16.
Pow2 == [i \in 0 .. 30 |-> 2 ^ i]
U32Small == [n \in 0 .. 15 |-> {i \in 0 .. 3 : (n \div Pow2[i]) % 2 = 1}]

\* The word of a number 0 <= n < 2^31.
U32(n) == IF n < 16 THEN U32Small[n]
          ELSE {i \in 0 .. 30 : (n \div Pow2[i]) % 2 = 1}

\* The number of a word whose bit 31 is clear.
RECURSIVE Val(_)
Val(b) == IF b = {} THEN 0
          ELSE LET i == CHOOSE j \in b : \A k \in b : k <= j
               IN  Pow2[i] + Val(b \ {i})

Or(a, b) == a \cup b
And(a, b) == a \cap b
Not(a) == Bit \ a

\* a << n for 0 <= n < 32: bits shifted past bit 31 are lost.
Shl(a, n) == {i + n : i \in a} \cap Bit

\* a >> n for n >= 0.
Shr(a, n) == {i - n : i \in {j \in a : j >= n}}

\* a - 1 modulo 2^32.
Dec(a) == IF a = {} THEN Bit
          ELSE LET k == CHOOSE j \in a : \A m \in a : j <= m
               IN  (a \ {k}) \cup (0 .. (k - 1))

\* Unsigned a > b.
Gt(a, b) == \E i \in a \ b : \A j \in (i + 1) .. 31 : (j \in a) <=> (j \in b)

\* The w-bit mask at position pos, and the value of that field of word r.
Mask(pos, w) == pos .. (pos + w - 1)
Field(r, pos, w) == Val(Shr(And(r, Mask(pos, w)), pos))

(***************************************************************************)
(* Bit positions of the vendor register header (stm32f407xx.h, core_cm4.h) *)
(* as the library uses them.                                               *)
(***************************************************************************)
RCC_CR_HSION_Pos == 0
RCC_CR_HSIRDY_Pos == 1
RCC_CR_HSEON_Pos == 16
RCC_CR_HSERDY_Pos == 17
RCC_CR_PLLON_Pos == 24
RCC_CR_PLLRDY_Pos == 25

RCC_PLLCFGR_PLLM_Pos == 0
RCC_PLLCFGR_PLLN_Pos == 6
RCC_PLLCFGR_PLLP_Pos == 16
RCC_PLLCFGR_PLLSRC_Pos == 22
RCC_PLLCFGR_PLLQ_Pos == 24
RCC_PLLCFGR_PLLM_Msk == Mask(RCC_PLLCFGR_PLLM_Pos, 6)
RCC_PLLCFGR_PLLN_Msk == Mask(RCC_PLLCFGR_PLLN_Pos, 9)
RCC_PLLCFGR_PLLP_Msk == Mask(RCC_PLLCFGR_PLLP_Pos, 2)
RCC_PLLCFGR_PLLSRC_Msk == Mask(RCC_PLLCFGR_PLLSRC_Pos, 1)
RCC_PLLCFGR_PLLQ_Msk == Mask(RCC_PLLCFGR_PLLQ_Pos, 4)

RCC_CFGR_SW_Pos == 0
RCC_CFGR_SWS_Pos == 2
RCC_CFGR_HPRE_Pos == 4
RCC_CFGR_PPRE1_Pos == 10
RCC_CFGR_PPRE2_Pos == 13
RCC_CFGR_RTCPRE_Pos == 16
RCC_CFGR_MCO1_Pos == 21
RCC_CFGR_MCO1PRE_Pos == 24
RCC_CFGR_MCO2PRE_Pos == 27
RCC_CFGR_MCO2_Pos == 30
RCC_CFGR_HPRE_Msk == Mask(RCC_CFGR_HPRE_Pos, 4)
RCC_CFGR_PPRE1_Msk == Mask(RCC_CFGR_PPRE1_Pos, 3)
RCC_CFGR_PPRE2_Msk == Mask(RCC_CFGR_PPRE2_Pos, 3)
RCC_CFGR_RTCPRE_Msk == Mask(RCC_CFGR_RTCPRE_Pos, 5)

RCC_AHB1ENR_GPIOAEN_Pos == 0
RCC_AHB1ENR_GPIOCEN_Pos == 2
RCC_APB1ENR_USART2EN_Pos == 17
RCC_APB2ENR_USART1EN_Pos == 4

GPIO_MODER_MODER8_Pos == 16
GPIO_MODER_MODER9_Pos == 18
GPIO_OSPEEDR_OSPEED8_Pos == 16
GPIO_OSPEEDR_OSPEED9_Pos == 18
GPIO_MODER_MODER8_Msk == Mask(GPIO_MODER_MODER8_Pos, 2)
GPIO_MODER_MODER9_Msk == Mask(GPIO_MODER_MODER9_Pos, 2)

SysTick_CTRL_ENABLE_Pos == 0
SysTick_CTRL_TICKINT_Pos == 1
SysTick_CTRL_CLKSOURCE_Pos == 2
SysTick_CTRL_COUNTFLAG_Pos == 16

USART_CR1_RE_Pos == 2
USART_CR1_PS_Pos == 9
USART_CR1_PCE_Pos == 10
USART_CR1_M_Pos == 12
USART_CR1_UE_Pos == 13
USART_CR1_OVER8_Pos == 15
USART_CR2_STOP_Pos == 12

(***************************************************************************)
(* State                                                                   *)
(***************************************************************************)
VARIABLES
    reg,     \* the memory-mapped registers: register name -> word
    pc,      \* where the single thread of control is: "idle" or a source line
    call,    \* the routine being executed, its arguments and its locals
    mem,     \* the caller's memory: the records handed over by pointer, and
             \* for usart_config the pins it passes and the compiled image
    pre,     \* the registers as they were when the current routine was entered
    done,    \* the routine that returned in the step leading here, if any
    hist,    \* the last routine that returned, and the registers it left
    cycles,  \* reset-then-poll cycles the current delay routine has completed
    ncalls   \* routines called so far

vars == <<reg, pc, call, mem, pre, done, hist, cycles, ncalls>>

NoCall == [op |-> "none"]

\* The bits the hardware owns: ready flags, switch status, SysTick count flag
\* and the running SysTick counter.
HwOwned(r) ==
    CASE r = "RCC_CR"   -> {RCC_CR_HSIRDY_Pos, RCC_CR_HSERDY_Pos, RCC_CR_PLLRDY_Pos}
      [] r = "RCC_CFGR" -> Mask(RCC_CFGR_SWS_Pos, 2)
      [] r = "STK_CTRL" -> {SysTick_CTRL_COUNTFLAG_Pos}
      [] r = "STK_VAL"  -> Bit
      [] OTHER          -> {}

\* The registers without the bits the hardware owns.
SwView(rs) == [r \in DOMAIN rs |-> rs[r] \ HwOwned(r)]

\* A routine returns: what `done' and `hist' become.  c is the call's record
\* (routine and arguments), ret its result, rs the registers it leaves.
Returned(c, ret, rs) ==
    /\ done' = [call |-> c, ret |-> ret,
                repeat |-> (hist.call = c),
                first |-> IF hist.call = c THEN hist.reg ELSE <<>>]
    /\ hist' = [call |-> c, reg |-> rs]

\* Any step that is not a return.
NotReturned == done' = [call |-> NoCall, ret |-> 0, repeat |-> FALSE, first |-> <<>>]


(***************************************************************************)
(* Bounds of the model                                                     *)
(***************************************************************************)
MaxCalls == 2
MaxTicks == 2
MaxDelayMs == 2
MaxDelayUs == 3

(***************************************************************************)
(* The registers                                                           *)
(***************************************************************************)
UsartNames == {"USART1", "USART2", "USART3", "UART4", "UART5", "USART6"}

\* The register r of peripheral block p.
R(p, r) == p \o "_" \o r

\* The registers each group of routines reads or writes; a specification
\* carries the registers of its routines only.
StkRegs == {"STK_CTRL", "STK_LOAD", "STK_VAL"}
ClockCfgRegs == {"RCC_CFGR", "RCC_AHB1ENR", "GPIOA_MODER", "GPIOA_OSPEEDR",
                 "GPIOC_MODER", "GPIOC_OSPEEDR"}
RccRegs == {"RCC_CR", "RCC_PLLCFGR", "RCC_CFGR"}

\* All of the registers names cleared.
ZeroRegs(names) == [r \in names |-> {}]

\* The caller's PLL parameter record when no PLL is configured.
NoPll == [PLLM |-> {}, PLLN |-> {}, PLLP |-> {}, PLLQ |-> {}]

(***************************************************************************)
(* SysTick: the hardware                                                   *)
(***************************************************************************)
\* The 24-bit full-scale reload value 0x00FFFFFF.
SYSTICK_RELOAD_VAL_MAX == Mask(0, 24)

\* The bits of SysTick->CTRL a write can change; COUNTFLAG is read-only.
StkCtrlWritable ==
    {SysTick_CTRL_ENABLE_Pos, SysTick_CTRL_TICKINT_Pos, SysTick_CTRL_CLKSOURCE_Pos}

\* A write of v to SysTick->CTRL.
StkWriteCTRL(rs, v) ==
    [rs EXCEPT !["STK_CTRL"] = And(v, StkCtrlWritable)
                               \cup And(@, {SysTick_CTRL_COUNTFLAG_Pos})]

\* A read of SysTick->CTRL clears COUNTFLAG.
StkReadCTRL(rs) == [rs EXCEPT !["STK_CTRL"] = @ \ {SysTick_CTRL_COUNTFLAG_Pos}]

\* A write of v to SysTick->LOAD keeps 24 bits.
StkWriteLOAD(rs, v) == [rs EXCEPT !["STK_LOAD"] = And(v, SYSTICK_RELOAD_VAL_MAX)]

\* Any write to SysTick->VAL clears the counter and COUNTFLAG.
StkWriteVAL(rs, v) ==
    [rs EXCEPT !["STK_VAL"] = {},
               !["STK_CTRL"] = @ \ {SysTick_CTRL_COUNTFLAG_Pos}]

\* The enabled counter reaches zero: COUNTFLAG is set and the counter reloads.
HwSysTickWrap ==
    /\ SysTick_CTRL_ENABLE_Pos \in reg["STK_CTRL"]
    /\ reg' = [reg EXCEPT !["STK_CTRL"] = @ \cup {SysTick_CTRL_COUNTFLAG_Pos},
                          !["STK_VAL"] = reg["STK_LOAD"]]
    /\ NotReturned
    /\ UNCHANGED <<pc, call, mem, pre, hist, cycles, ncalls>>

(***************************************************************************)
(* systick_config_init                                                     *)
(***************************************************************************)
\* if ((ticks - 1) > SYSTICK_RELOAD_VAL_MAX), with the comparison on ticks itself.
SysTickRejects_ticks(ticks) == Gt(ticks, SYSTICK_RELOAD_VAL_MAX)

\* if ((ticks - 1) > SYSTICK_RELOAD_VAL_MAX)
SysTickRejects(ticks) == Gt(Dec(ticks), SYSTICK_RELOAD_VAL_MAX)

\* The register writes of systick_config_init without the disabling write.
SysTickProgram_nodisable(rs, interrupt_mode, ticks) ==
    LET r2 == StkWriteLOAD(rs, Dec(ticks))
        r3 == StkWriteVAL(r2, {})
        rd == r3["STK_CTRL"]
    IN  StkWriteCTRL(StkReadCTRL(r3),
                     Or(rd, Or(Shl(U32(1), SysTick_CTRL_ENABLE_Pos),
                            Or(Shl(U32(interrupt_mode), SysTick_CTRL_TICKINT_Pos),
                               Shl(U32(1), SysTick_CTRL_CLKSOURCE_Pos)))))

\* The register writes of systick_config_init once the tick count is accepted.
SysTickProgram(rs, interrupt_mode, ticks) ==
    LET r1 == StkWriteCTRL(rs, {})
        r2 == StkWriteLOAD(r1, Dec(ticks))
        r3 == StkWriteVAL(r2, {})
        rd == r3["STK_CTRL"]
    IN  StkWriteCTRL(StkReadCTRL(r3),
                     Or(rd, Or(Shl(U32(1), SysTick_CTRL_ENABLE_Pos),
                            Or(Shl(U32(interrupt_mode), SysTick_CTRL_TICKINT_Pos),
                               Shl(U32(1), SysTick_CTRL_CLKSOURCE_Pos)))))

\* The tick counts tried: small ones, 1000, and the values around the limit
\* (0x00FFFFFF, 0x01000000, 0x01000001, 0xFFFFFFFF).
TickValues ==
    {U32(n) : n \in 0 .. MaxTicks}
    \cup {U32(1000), Mask(0, 24), {24}, {0, 24}, Bit}

systick_config_init(interrupt_mode, ticks) ==
    /\ pc = "idle"
    /\ LET c == [op |-> "systick_config_init",
                 interrupt_mode |-> interrupt_mode, ticks |-> ticks]
           rejected == SysTickRejects(ticks)
           rs == IF rejected THEN reg ELSE SysTickProgram(reg, interrupt_mode, ticks)
       IN  /\ reg' = rs
           /\ pre' = reg
           /\ Returned(c, IF rejected THEN "RCC_FAIL_FLAG" ELSE "RCC_SUCCESS_FLAG", rs)
    /\ ncalls' = ncalls
    /\ UNCHANGED <<pc, call, mem, cycles>>

\* The SysTick states the routine may be entered in.
InitSysTick ==
    /\ \E ctrl \in SUBSET (StkCtrlWritable \cup {SysTick_CTRL_COUNTFLAG_Pos}),
          load \in {{}, U32(999), SYSTICK_RELOAD_VAL_MAX},
          val \in {{}, U32(5)} :
          reg = [ZeroRegs(StkRegs) EXCEPT !["STK_CTRL"] = ctrl,
                                 !["STK_LOAD"] = load,
                                 !["STK_VAL"] = val]
    /\ pc = "idle"
    /\ call = NoCall
    /\ mem = NoPll
    /\ pre = reg
    /\ done = [call |-> NoCall, ret |-> 0, repeat |-> FALSE, first |-> <<>>]
    /\ hist = [call |-> NoCall, reg |-> <<>>]
    /\ cycles = 0
    /\ ncalls = 0

NextSysTick ==
    \/ \E m \in {0, 1}, t \in TickValues : systick_config_init(m, t)
    \/ HwSysTickWrap

SpecSysTick == InitSysTick /\ [][NextSysTick]_vars


(***************************************************************************)
(* Claims about systick_config_init                                        *)
(***************************************************************************)
SysTickReturned == done.call.op = "systick_config_init"
SysTickKept == \A r \in StkRegs : reg[r] = pre[r]

\* C3 as stated: a tick count of 0x01000000 returns the failure flag and
\* leaves CTRL, LOAD and VAL unchanged, and whenever the routine returns the
\* failure flag none of the three registers has been modified.
C3_AsStated ==
    SysTickReturned =>
        /\ done.call.ticks = {24} => (done.ret = "RCC_FAIL_FLAG" /\ SysTickKept)
        /\ done.ret = "RCC_FAIL_FLAG" => SysTickKept

\* C3 amended: the routine rejects exactly the tick counts t with
\* (t - 1) mod 2^32 > 0x00FFFFFF, so 0x01000000 (reload value 0x00FFFFFF) is
\* accepted and programs LOAD = 0x00FFFFFF, while 0x01000001 and 0 are
\* rejected; whenever the routine returns the failure flag, CTRL, LOAD and
\* VAL are as they were on entry.
C3_RejectsPastMax ==
    SysTickReturned =>
        LET t == done.call.ticks
            over == t = {} \/ 31 \in t \/ Val(t) - 1 > 16777215
        IN  /\ done.ret = (IF over THEN "RCC_FAIL_FLAG" ELSE "RCC_SUCCESS_FLAG")
            /\ t = {24} => (done.ret = "RCC_SUCCESS_FLAG"
                            /\ reg["STK_LOAD"] = Mask(0, 24))
            /\ t = {0, 24} => done.ret = "RCC_FAIL_FLAG"
            /\ done.ret = "RCC_FAIL_FLAG" => SysTickKept

\* C3 witness: 0x01000001 was rejected from a state with a running timer.
C3_Witness ==
    /\ SysTickReturned
    /\ done.call.ticks = {0, 24}
    /\ done.ret = "RCC_FAIL_FLAG"
    /\ SysTick_CTRL_ENABLE_Pos \in reg["STK_CTRL"]
    /\ reg["STK_LOAD"] = U32(999)

\* C4: for 1 <= t, t - 1 <= 0x00FFFFFF and m in {0, 1}, the routine returns
\* the success flag with LOAD = t - 1, VAL = 0 and CTRL holding exactly
\* ENABLE, CLKSOURCE and (when m = 1) TICKINT.
C4_SysTickProgrammed ==
    SysTickReturned =>
        LET t == done.call.ticks
            m == done.call.interrupt_mode
        IN  (t # {} /\ 31 \notin t /\ Val(t) - 1 <= 16777215) =>
                /\ done.ret = "RCC_SUCCESS_FLAG"
                /\ 31 \notin reg["STK_LOAD"]
                /\ Val(reg["STK_LOAD"]) = Val(t) - 1
                /\ reg["STK_VAL"] = {}
                /\ reg["STK_CTRL"] =
                       {SysTick_CTRL_ENABLE_Pos, SysTick_CTRL_CLKSOURCE_Pos}
                       \cup (IF m = 1 THEN {SysTick_CTRL_TICKINT_Pos} ELSE {})

\* C4 witness: 1000 ticks with the interrupt enabled, entered with a stale
\* counter, a pending count flag and other control bits, gives LOAD = 999.
C4_Witness ==
    /\ SysTickReturned
    /\ done.call.ticks = U32(1000)
    /\ done.call.interrupt_mode = 1
    /\ Val(reg["STK_LOAD"]) = 999
    /\ pre["STK_VAL"] # {}
    /\ SysTick_CTRL_COUNTFLAG_Pos \in pre["STK_CTRL"]


(***************************************************************************)
(* delay_ms_systick, delay_us_systick                                      *)
(*                                                                         *)
(* The delay counts stay below 2^31 within the bounds of the model, so     *)
(* they are kept as numbers and `ms_delay *= 1000' does not wrap.          *)
(***************************************************************************)
\* while (--delay): the loop test with the decrement applied first.
WhileTest_predec(delay) == delay - 1 # 0

\* while (delay--): the test is on the value before the decrement.
WhileTest(delay) == delay # 0

\* ms_delay *= 1000, then the first loop test.
delay_ms_systick(ms_delay) ==
    /\ pc = "idle"
    /\ call' = [op |-> "delay_ms_systick", arg |-> ms_delay, delay |-> ms_delay * 1000]
    /\ pc' = "ms350"
    /\ cycles' = 0
    /\ pre' = reg
    /\ NotReturned
    /\ UNCHANGED <<reg, mem, hist, ncalls>>

delay_us_systick(us_delay) ==
    /\ pc = "idle"
    /\ call' = [op |-> "delay_us_systick", arg |-> us_delay, delay |-> us_delay]
    /\ pc' = "us377"
    /\ cycles' = 0
    /\ pre' = reg
    /\ NotReturned
    /\ UNCHANGED <<reg, mem, hist, ncalls>>

\* while (delay--) at lines 350 and 377: enter the body, or return.
DelayLoopEnter ==
    /\ pc \in {"ms350", "us377"}
    /\ WhileTest(call.delay)
    /\ call' = [call EXCEPT !.delay = @ - 1]
    /\ pc' = IF pc = "ms350" THEN "ms352" ELSE "us379"
    /\ NotReturned
    /\ UNCHANGED <<reg, mem, pre, hist, cycles, ncalls>>

DelayReturn ==
    /\ pc \in {"ms350", "us377"}
    /\ ~WhileTest(call.delay)
    /\ pc' = "idle"
    /\ call' = NoCall
    /\ done' = [call |-> [op |-> call.op, arg |-> call.arg], ret |-> 0,
                repeat |-> FALSE, first |-> <<>>]
    /\ UNCHANGED <<reg, mem, pre, hist, cycles, ncalls>>

\* SysTick->VAL = 0 at lines 352 and 379.
DelayResetVal ==
    /\ pc \in {"ms352", "us379"}
    /\ reg' = StkWriteVAL(reg, {})
    /\ pc' = IF pc = "ms352" THEN "ms353" ELSE "us380"
    /\ NotReturned
    /\ UNCHANGED <<call, mem, pre, hist, cycles, ncalls>>

\* while (!(SysTick->CTRL & COUNTFLAG)) at lines 353 and 380: the read that
\* sees the flag consumes it and ends the cycle; a read that does not see it
\* changes nothing and the loop reads again.
DelayPoll ==
    /\ pc \in {"ms353", "us380"}
    /\ SysTick_CTRL_COUNTFLAG_Pos \in reg["STK_CTRL"]
    /\ reg' = StkReadCTRL(reg)
    /\ cycles' = cycles + 1
    /\ pc' = IF pc = "ms353" THEN "ms350" ELSE "us377"
    /\ NotReturned
    /\ UNCHANGED <<call, mem, pre, hist, ncalls>>

\* The timer is configured (or not) before a delay is asked for.
InitDelay ==
    /\ \E ctrl \in {{},
                    {SysTick_CTRL_ENABLE_Pos, SysTick_CTRL_CLKSOURCE_Pos},
                    {SysTick_CTRL_ENABLE_Pos, SysTick_CTRL_CLKSOURCE_Pos,
                     SysTick_CTRL_COUNTFLAG_Pos}},
          load \in {U32(15), U32(167)} :
          reg = [ZeroRegs(StkRegs) EXCEPT !["STK_CTRL"] = ctrl, !["STK_LOAD"] = load]
    /\ pc = "idle"
    /\ call = NoCall
    /\ mem = NoPll
    /\ pre = reg
    /\ done = [call |-> NoCall, ret |-> 0, repeat |-> FALSE, first |-> <<>>]
    /\ hist = [call |-> NoCall, reg |-> <<>>]
    /\ cycles = 0
    /\ ncalls = 0

NextDelay ==
    \/ \E n \in 0 .. MaxDelayMs : delay_ms_systick(n)
    \/ \E n \in 0 .. MaxDelayUs : delay_us_systick(n)
    \/ DelayLoopEnter
    \/ DelayResetVal
    \/ DelayPoll
    \/ DelayReturn
    \/ HwSysTickWrap

SpecDelay == InitDelay /\ [][NextDelay]_vars

\* C9: delay_ms_systick(n) returns after exactly n*1000 reset-then-poll
\* cycles and delay_us_systick(n) after exactly n.
C9_DelayCycles ==
    /\ done.call.op = "delay_ms_systick" => cycles = done.call.arg * 1000
    /\ done.call.op = "delay_us_systick" => cycles = done.call.arg

\* C9 witness: a 2 ms delay returned after 2000 cycles.
C9_Witness ==
    /\ done.call.op = "delay_ms_systick"
    /\ done.call.arg = 2
    /\ cycles = 2000


(***************************************************************************)
(* MCO_Config, system_clock_setting                                        *)
(***************************************************************************)
\* REG |= v and REG &= v
OrAssign(rs, r, v) == [rs EXCEPT ![r] = Or(@, v)]
AndAssign(rs, r, v) == [rs EXCEPT ![r] = And(@, v)]

\* The register writes of MCO_Config, statement by statement.
MCO_Config_Regs(rs, mco_channel, mco_clock_source, mco_prescaler) ==
    IF mco_channel = "MCO_CHANNEL_1" THEN
        LET r1 == OrAssign(rs, "RCC_AHB1ENR", Shl(U32(1), RCC_AHB1ENR_GPIOAEN_Pos))
            r2 == OrAssign(r1, "GPIOA_MODER",
                           Or(And(r1["GPIOA_MODER"], Not(GPIO_MODER_MODER8_Msk)),
                              Shl(U32(2), GPIO_MODER_MODER8_Pos)))
            r3 == OrAssign(r2, "GPIOA_OSPEEDR", Shl(U32(3), GPIO_OSPEEDR_OSPEED8_Pos))
            r4 == OrAssign(r3, "RCC_CFGR",
                           Or(And(r3["RCC_CFGR"], Not(Shl(U32(3), RCC_CFGR_MCO1_Pos))),
                              Shl(U32(mco_clock_source), RCC_CFGR_MCO1_Pos)))
        IN  OrAssign(r4, "RCC_CFGR",
                     Or(And(r4["RCC_CFGR"], Not(Shl(U32(7), RCC_CFGR_MCO1PRE_Pos))),
                        Shl(U32(mco_prescaler), RCC_CFGR_MCO1PRE_Pos)))
    ELSE IF mco_channel = "MCO_CHANNEL_2" THEN
        LET r1 == OrAssign(rs, "RCC_AHB1ENR", Shl(U32(1), RCC_AHB1ENR_GPIOCEN_Pos))
            r2 == OrAssign(r1, "GPIOC_MODER",
                           Or(And(r1["GPIOC_MODER"], Not(GPIO_MODER_MODER9_Msk)),
                              Shl(U32(2), GPIO_MODER_MODER9_Pos)))
            r3 == OrAssign(r2, "GPIOC_OSPEEDR", Shl(U32(3), GPIO_OSPEEDR_OSPEED9_Pos))
            r4 == OrAssign(r3, "RCC_CFGR",
                           Or(And(r3["RCC_CFGR"], Not(Shl(U32(3), RCC_CFGR_MCO2_Pos))),
                              Shl(U32(mco_clock_source), RCC_CFGR_MCO2_Pos)))
        IN  OrAssign(r4, "RCC_CFGR",
                     Or(And(r4["RCC_CFGR"], Not(Shl(U32(7), RCC_CFGR_MCO2PRE_Pos))),
                        Shl(U32(mco_prescaler), RCC_CFGR_MCO2PRE_Pos)))
    ELSE rs

MCO_Config(mco_channel, mco_clock_source, mco_prescaler) ==
    /\ pc = "idle"
    /\ ncalls < MaxCalls
    /\ LET c == [op |-> "MCO_Config", mco_channel |-> mco_channel,
                 mco_clock_source |-> mco_clock_source,
                 mco_prescaler |-> mco_prescaler]
           rs == MCO_Config_Regs(reg, mco_channel, mco_clock_source, mco_prescaler)
       IN  /\ reg' = rs
           /\ pre' = reg
           /\ Returned(c, 0, rs)
    /\ ncalls' = ncalls + 1
    /\ UNCHANGED <<pc, call, mem, cycles>>

\* The register writes of system_clock_setting; the three prescaler values
\* of the record are words already shifted to their fields.
system_clock_setting_Regs(rs, cfg) ==
    LET r1 == OrAssign(rs, "RCC_CFGR",
                       Or(And(rs["RCC_CFGR"], Not(RCC_CFGR_PPRE1_Msk)),
                          cfg.ppre1_apb1_pre))
        r2 == OrAssign(r1, "RCC_CFGR",
                       Or(And(r1["RCC_CFGR"], Not(RCC_CFGR_PPRE2_Msk)),
                          cfg.ppre2_apb2_pre))
    IN  OrAssign(r2, "RCC_CFGR",
                 Or(And(r2["RCC_CFGR"], Not(RCC_CFGR_RTCPRE_Msk)), cfg.rtcpre_pre))

system_clock_setting(sys_core_clock, sys_bus_clk_cfg) ==
    /\ pc = "idle"
    /\ ncalls < MaxCalls
    /\ LET c == [op |-> "system_clock_setting", sys_core_clock |-> sys_core_clock,
                 sys_bus_clk_cfg |-> sys_bus_clk_cfg]
           rs == system_clock_setting_Regs(reg, sys_bus_clk_cfg)
       IN  /\ reg' = rs
           /\ pre' = reg
           /\ Returned(c, 0, rs)
    /\ ncalls' = ncalls + 1
    /\ UNCHANGED <<pc, call, mem, cycles>>

\* The bus prescaler records tried: undivided, and APB1/4, APB2/2, RTC/8.
BusClkCfgs ==
    [ppre1_apb1_pre : {{}, Shl(U32(5), RCC_CFGR_PPRE1_Pos)},
     ppre2_apb2_pre : {{}, Shl(U32(4), RCC_CFGR_PPRE2_Pos)},
     rtcpre_pre : {{}, Shl(U32(8), RCC_CFGR_RTCPRE_Pos)}]

McoSources == 0 .. 3
McoPrescalers == {0, 4, 7}

\* The clock-configuration and pin registers the routines may find: each MCO
\* field and pin field empty or already programmed, with or without bits set
\* in the other fields.
InitClockCfg ==
    /\ \E mco \in {0, 1}, mcopre \in {0, 4}, mode \in 0 .. 3, speed \in {0, 1},
          others \in BOOLEAN :
          reg = [ZeroRegs(ClockCfgRegs) EXCEPT
                   !["RCC_CFGR"] =
                       Shl(U32(mco), RCC_CFGR_MCO1_Pos)
                       \cup Shl(U32(mco), RCC_CFGR_MCO2_Pos)
                       \cup Shl(U32(mcopre), RCC_CFGR_MCO1PRE_Pos)
                       \cup Shl(U32(mcopre), RCC_CFGR_MCO2PRE_Pos)
                       \cup (IF others
                             THEN {1, 3} \cup Shl(U32(4), RCC_CFGR_PPRE1_Pos) \cup {23}
                             ELSE {}),
                   !["GPIOA_MODER"] =
                       Shl(U32(mode), GPIO_MODER_MODER8_Pos)
                       \cup (IF others THEN {27, 29, 31} ELSE {}),
                   !["GPIOC_MODER"] =
                       Shl(U32(mode), GPIO_MODER_MODER9_Pos)
                       \cup (IF others THEN {0, 2} ELSE {}),
                   !["GPIOA_OSPEEDR"] = Shl(U32(speed), GPIO_OSPEEDR_OSPEED8_Pos),
                   !["GPIOC_OSPEEDR"] = Shl(U32(speed), GPIO_OSPEEDR_OSPEED9_Pos),
                   !["RCC_AHB1ENR"] = IF others THEN {1, 20} ELSE {}]
    /\ pc = "idle"
    /\ call = NoCall
    /\ mem = NoPll
    /\ pre = reg
    /\ done = [call |-> NoCall, ret |-> 0, repeat |-> FALSE, first |-> <<>>]
    /\ hist = [call |-> NoCall, reg |-> <<>>]
    /\ cycles = 0
    /\ ncalls = 0

NextClockCfg ==
    \/ \E ch \in {"MCO_CHANNEL_1", "MCO_CHANNEL_2", "MCO_CHANNEL_none"},
          x \in McoSources, y \in McoPrescalers : MCO_Config(ch, x, y)
    \/ \E cfg \in BusClkCfgs : system_clock_setting(168000000, cfg)

SpecClockCfg == InitClockCfg /\ [][NextClockCfg]_vars

\* C2: MCO_Config(channel 1, X, Y) leaves MCO1 = X, MCO1PRE = Y, the GPIOA
\* clock enabled, PA8 mode = 2 and speed = 3, and every CFGR bit outside the
\* two MCO1 fields as it was; channel 2 likewise for GPIOC, PC9 and MCO2.
C2_McoConfigured ==
    done.call.op = "MCO_Config" =>
        LET x == done.call.mco_clock_source
            y == done.call.mco_prescaler
        IN  /\ done.call.mco_channel = "MCO_CHANNEL_1" =>
                /\ Field(reg["RCC_CFGR"], RCC_CFGR_MCO1_Pos, 2) = x
                /\ Field(reg["RCC_CFGR"], RCC_CFGR_MCO1PRE_Pos, 3) = y
                /\ RCC_AHB1ENR_GPIOAEN_Pos \in reg["RCC_AHB1ENR"]
                /\ Field(reg["GPIOA_MODER"], GPIO_MODER_MODER8_Pos, 2) = 2
                /\ Field(reg["GPIOA_OSPEEDR"], GPIO_OSPEEDR_OSPEED8_Pos, 2) = 3
                /\ reg["RCC_CFGR"] \ (Mask(RCC_CFGR_MCO1_Pos, 2)
                                      \cup Mask(RCC_CFGR_MCO1PRE_Pos, 3))
                   = pre["RCC_CFGR"] \ (Mask(RCC_CFGR_MCO1_Pos, 2)
                                        \cup Mask(RCC_CFGR_MCO1PRE_Pos, 3))
            /\ done.call.mco_channel = "MCO_CHANNEL_2" =>
                /\ Field(reg["RCC_CFGR"], RCC_CFGR_MCO2_Pos, 2) = x
                /\ Field(reg["RCC_CFGR"], RCC_CFGR_MCO2PRE_Pos, 3) = y
                /\ RCC_AHB1ENR_GPIOCEN_Pos \in reg["RCC_AHB1ENR"]
                /\ Field(reg["GPIOC_MODER"], GPIO_MODER_MODER9_Pos, 2) = 2
                /\ Field(reg["GPIOC_OSPEEDR"], GPIO_OSPEEDR_OSPEED9_Pos, 2) = 3
                /\ reg["RCC_CFGR"] \ (Mask(RCC_CFGR_MCO2_Pos, 2)
                                      \cup Mask(RCC_CFGR_MCO2PRE_Pos, 3))
                   = pre["RCC_CFGR"] \ (Mask(RCC_CFGR_MCO2_Pos, 2)
                                        \cup Mask(RCC_CFGR_MCO2PRE_Pos, 3))


(***************************************************************************)
(* RCC_System_Clock_Source_Config                                          *)
(*                                                                         *)
(* One action per register access; a busy-wait loop is an action enabled   *)
(* once the polled flag has the awaited value (a read that sees the other  *)
(* value changes nothing).  The fixed empty loops `for (i = 0; i < 15000;  *)
(* i++);' (lines 190, 205, 212, 215) touch no register and are left out.   *)
(***************************************************************************)
\* The selector values: the routine shifts them into the SW and PLLSRC
\* fields unchanged, so they are the hardware encodings.
SYS_CLOCK_SOURCE_HSI == 0
SYS_CLOCK_SOURCE_HSE == 1
SYS_CLOCK_SOURCE_PLL == 2
PLL_CLOCK_SRC_HSI == 0
PLL_CLOCK_SRC_HSE == 1

\* The PLL branch entered past the disabling of the PLL.
RccEntry_nooff(system_clock_source) ==
    CASE system_clock_source = SYS_CLOCK_SOURCE_HSI -> "L141"
      [] system_clock_source = SYS_CLOCK_SOURCE_HSE -> "L152"
      [] system_clock_source = SYS_CLOCK_SOURCE_PLL -> "L167"
      [] OTHER -> "L225"

\* The statement after the branch of the requested source begins.
RccEntry(system_clock_source) ==
    CASE system_clock_source = SYS_CLOCK_SOURCE_HSI -> "L141"
      [] system_clock_source = SYS_CLOCK_SOURCE_HSE -> "L152"
      [] system_clock_source = SYS_CLOCK_SOURCE_PLL -> "L162"
      [] OTHER -> "L225"

RCC_System_Clock_Source_Config(system_clock_source, pll_clock_source) ==
    /\ pc = "idle"
    /\ ncalls < MaxCalls
    /\ call' = [op |-> "RCC_System_Clock_Source_Config",
                system_clock_source |-> system_clock_source,
                pll_clock_source |-> pll_clock_source,
                rcc_pll_config_param_t |->
                    IF system_clock_source = SYS_CLOCK_SOURCE_PLL
                    THEN "pll_params" ELSE "NULL",
                entry_PLLP |-> mem.PLLP,
                sws_read |-> {}]
    /\ pc' = RccEntry(system_clock_source)
    /\ pre' = reg
    /\ ncalls' = ncalls + 1
    /\ NotReturned
    /\ UNCHANGED <<reg, mem, hist, cycles>>

\* (1U << on) & (~(1U << off1)) & (~(1U << off2)): the word ORed into RCC->CR
\* to switch an oscillator on "and the other sources off".
OscOnWord(on, off1, off2) ==
    And(Shl(U32(1), on), And(Not(Shl(U32(1), off1)), Not(Shl(U32(1), off2))))

\* Lines 141, 172: RCC->CR |= HSION & ~HSEON & ~PLLON.
RccHsiOn ==
    /\ pc \in {"L141", "L172"}
    /\ reg' = OrAssign(reg, "RCC_CR",
                       OscOnWord(RCC_CR_HSION_Pos, RCC_CR_HSEON_Pos, RCC_CR_PLLON_Pos))
    /\ pc' = IF pc = "L141" THEN "L145" ELSE "L176"
    /\ NotReturned
    /\ UNCHANGED <<call, mem, pre, hist, cycles, ncalls>>

\* Lines 145, 176: while (!((1U << HSIRDY) & RCC->CR));
RccHsiWait ==
    /\ pc \in {"L145", "L176"}
    /\ And(Shl(U32(1), RCC_CR_HSIRDY_Pos), reg["RCC_CR"]) # {}
    /\ pc' = IF pc = "L145" THEN "L225" ELSE "L193"
    /\ NotReturned
    /\ UNCHANGED <<reg, call, mem, pre, hist, cycles, ncalls>>

\* Lines 152, 182: RCC->CR |= HSEON & ~HSION & ~PLLON.
RccHseOn ==
    /\ pc \in {"L152", "L182"}
    /\ reg' = OrAssign(reg, "RCC_CR",
                       OscOnWord(RCC_CR_HSEON_Pos, RCC_CR_HSION_Pos, RCC_CR_PLLON_Pos))
    /\ pc' = IF pc = "L152" THEN "L156" ELSE "L186"
    /\ NotReturned
    /\ UNCHANGED <<call, mem, pre, hist, cycles, ncalls>>

\* Lines 156, 186: while (!((1U << HSERDY) & RCC->CR));
RccHseWait ==
    /\ pc \in {"L156", "L186"}
    /\ And(Shl(U32(1), RCC_CR_HSERDY_Pos), reg["RCC_CR"]) # {}
    /\ pc' = IF pc = "L156" THEN "L225" ELSE "L193"
    /\ NotReturned
    /\ UNCHANGED <<reg, call, mem, pre, hist, cycles, ncalls>>

\* Line 162: RCC->CR &= ~(1U << PLLON).
RccPllOff ==
    /\ pc = "L162"
    /\ reg' = AndAssign(reg, "RCC_CR", Not(Shl(U32(1), RCC_CR_PLLON_Pos)))
    /\ pc' = "L163"
    /\ NotReturned
    /\ UNCHANGED <<call, mem, pre, hist, cycles, ncalls>>

\* Line 163: while ((RCC->CR >> PLLRDY) & 1);
RccPllOffWait ==
    /\ pc = "L163"
    /\ And(Shr(reg["RCC_CR"], RCC_CR_PLLRDY_Pos), U32(1)) = {}
    /\ pc' = "L167"
    /\ NotReturned
    /\ UNCHANGED <<reg, call, mem, pre, hist, cycles, ncalls>>

\* PLLP / 2 without the - 1.
PllpEncode_nodec(PLLP) == Shr(PLLP, 1)

\* Line 167: (PLLP) / 2 - 1 on the unsigned field of the record.
PllpEncode(PLLP) == Dec(Shr(PLLP, 1))

\* Line 167: the record's PLLP is overwritten, then the branch on the PLL
\* clock source of lines 169 and 179.
RccPllpStore ==
    /\ pc = "L167"
    /\ mem' = [mem EXCEPT !.PLLP = PllpEncode(@)]
    /\ pc' = CASE call.pll_clock_source = PLL_CLOCK_SRC_HSI -> "L172"
               [] call.pll_clock_source = PLL_CLOCK_SRC_HSE -> "L182"
               [] OTHER -> "L193"
    /\ NotReturned
    /\ UNCHANGED <<reg, call, pre, hist, cycles, ncalls>>

\* Lines 193-195: RCC->PLLCFGR &= ~PLLM & ~PLLN & ~PLLP & ~PLLQ & ~PLLSRC.
RccPllCfgClear ==
    /\ pc = "L193"
    /\ reg' = AndAssign(reg, "RCC_PLLCFGR",
                        And(Not(RCC_PLLCFGR_PLLM_Msk),
                        And(Not(RCC_PLLCFGR_PLLN_Msk),
                        And(Not(RCC_PLLCFGR_PLLP_Msk),
                        And(Not(RCC_PLLCFGR_PLLQ_Msk), Not(RCC_PLLCFGR_PLLSRC_Msk))))))
    /\ pc' = "L198"
    /\ NotReturned
    /\ UNCHANGED <<call, mem, pre, hist, cycles, ncalls>>

\* Lines 198-202: the word ORed into RCC->PLLCFGR.
PllCfgWord(p, pll_clock_source) ==
    Or(Shl(p.PLLM, RCC_PLLCFGR_PLLM_Pos),
    Or(Shl(p.PLLN, RCC_PLLCFGR_PLLN_Pos),
    Or(Shl(p.PLLP, RCC_PLLCFGR_PLLP_Pos),
    Or(Shl(p.PLLQ, RCC_PLLCFGR_PLLQ_Pos),
       Shl(U32(pll_clock_source), RCC_PLLCFGR_PLLSRC_Pos)))))

RccPllCfgWrite ==
    /\ pc = "L198"
    /\ reg' = OrAssign(reg, "RCC_PLLCFGR", PllCfgWord(mem, call.pll_clock_source))
    /\ pc' = "L208"
    /\ NotReturned
    /\ UNCHANGED <<call, mem, pre, hist, cycles, ncalls>>

\* Lines 208-209: RCC->CFGR &= ~HPRE & ~PPRE1 & ~PPRE2.
RccCfgrClearPrescalers ==
    /\ pc = "L208"
    /\ reg' = AndAssign(reg, "RCC_CFGR",
                        And(Not(RCC_CFGR_HPRE_Msk),
                        And(Not(RCC_CFGR_PPRE1_Msk), Not(RCC_CFGR_PPRE2_Msk))))
    /\ pc' = "L218"
    /\ NotReturned
    /\ UNCHANGED <<call, mem, pre, hist, cycles, ncalls>>

\* Line 218: RCC->CR |= (1U << PLLON).
RccPllOn ==
    /\ pc = "L218"
    /\ reg' = OrAssign(reg, "RCC_CR", Shl(U32(1), RCC_CR_PLLON_Pos))
    /\ pc' = "L221"
    /\ NotReturned
    /\ UNCHANGED <<call, mem, pre, hist, cycles, ncalls>>

\* Line 221: while (!((RCC->CR >> PLLRDY) & 1));
RccPllLockWait ==
    /\ pc = "L221"
    /\ And(Shr(reg["RCC_CR"], RCC_CR_PLLRDY_Pos), U32(1)) # {}
    /\ pc' = "L225"
    /\ NotReturned
    /\ UNCHANGED <<reg, call, mem, pre, hist, cycles, ncalls>>

\* Lines 225-226: the word ORed into RCC->CFGR.
SwitchWord(cfgr, system_clock_source) ==
    Or(And(cfgr, Not(Shl(U32(3), RCC_CFGR_SW_Pos))),
       Shl(U32(system_clock_source), RCC_CFGR_SW_Pos))

RccSwitch ==
    /\ pc = "L225"
    /\ reg' = OrAssign(reg, "RCC_CFGR",
                       SwitchWord(reg["RCC_CFGR"], call.system_clock_source))
    /\ pc' = "L229"
    /\ NotReturned
    /\ UNCHANGED <<call, mem, pre, hist, cycles, ncalls>>

\* Line 229: while (!(((RCC->CFGR >> SWS) & 3) == system_clock_source));
\* the read that ends the loop is kept in sws_read.
RccSwitchWait ==
    /\ pc = "L229"
    /\ LET sws == And(Shr(reg["RCC_CFGR"], RCC_CFGR_SWS_Pos), U32(3))
       IN  /\ sws = U32(call.system_clock_source)
           /\ call' = [call EXCEPT !.sws_read = sws]
    /\ pc' = "L241"
    /\ NotReturned
    /\ UNCHANGED <<reg, mem, pre, hist, cycles, ncalls>>

\* Line 241: RCC->CFGR &= ~(0xF << HPRE), and the routine returns.
RccReturn ==
    /\ pc = "L241"
    /\ LET rs == AndAssign(reg, "RCC_CFGR", Not(Shl(U32(15), RCC_CFGR_HPRE_Pos)))
           c == [op |-> call.op,
                 system_clock_source |-> call.system_clock_source,
                 pll_clock_source |-> call.pll_clock_source,
                 rcc_pll_config_param_t |-> call.rcc_pll_config_param_t]
       IN  /\ reg' = rs
           /\ Returned(c, [entry_PLLP |-> call.entry_PLLP, sws_read |-> call.sws_read], rs)
    /\ pc' = "idle"
    /\ call' = NoCall
    /\ UNCHANGED <<mem, pre, cycles, ncalls>>

(***************************************************************************)
(* RCC: the hardware                                                       *)
(***************************************************************************)
HwStep(r, word) ==
    /\ reg' = [reg EXCEPT ![r] = word]
    /\ NotReturned
    /\ UNCHANGED <<pc, call, mem, pre, hist, cycles, ncalls>>

\* An enabled oscillator or PLL becomes ready.
HwHSIReady ==
    /\ RCC_CR_HSION_Pos \in reg["RCC_CR"] /\ RCC_CR_HSIRDY_Pos \notin reg["RCC_CR"]
    /\ HwStep("RCC_CR", reg["RCC_CR"] \cup {RCC_CR_HSIRDY_Pos})

HwHSEReady ==
    /\ RCC_CR_HSEON_Pos \in reg["RCC_CR"] /\ RCC_CR_HSERDY_Pos \notin reg["RCC_CR"]
    /\ HwStep("RCC_CR", reg["RCC_CR"] \cup {RCC_CR_HSERDY_Pos})

HwPLLReady ==
    /\ RCC_CR_PLLON_Pos \in reg["RCC_CR"] /\ RCC_CR_PLLRDY_Pos \notin reg["RCC_CR"]
    /\ HwStep("RCC_CR", reg["RCC_CR"] \cup {RCC_CR_PLLRDY_Pos})

\* A disabled PLL unlocks.
HwPLLUnlock ==
    /\ RCC_CR_PLLON_Pos \notin reg["RCC_CR"] /\ RCC_CR_PLLRDY_Pos \in reg["RCC_CR"]
    /\ HwStep("RCC_CR", reg["RCC_CR"] \ {RCC_CR_PLLRDY_Pos})

\* The clock switch follows a valid SW selection: SWS becomes SW.  (SW = 3
\* selects no source and SWS does not follow it.)
HwSwitch ==
    LET sw == Field(reg["RCC_CFGR"], RCC_CFGR_SW_Pos, 2)
        sws == Field(reg["RCC_CFGR"], RCC_CFGR_SWS_Pos, 2)
    IN  /\ sw \in {SYS_CLOCK_SOURCE_HSI, SYS_CLOCK_SOURCE_HSE, SYS_CLOCK_SOURCE_PLL}
        /\ sws # sw
        /\ HwStep("RCC_CFGR", (reg["RCC_CFGR"] \ Mask(RCC_CFGR_SWS_Pos, 2))
                              \cup Shl(U32(sw), RCC_CFGR_SWS_Pos))

\* The PLL parameter records the caller fills in: PLLP is the raw divider.
PllParams ==
    [PLLM : {U32(8)}, PLLN : {U32(336)}, PLLP : {U32(2), U32(4), U32(6), U32(8)},
     PLLQ : {U32(7)}]

\* RCC->CR with each source off, or on and ready (HSE also on and not yet
\* ready); RCC->CFGR with any valid source selected, the switch to it done
\* or still pending from HSI, and the prescaler and MCO fields clear or set;
\* RCC->PLLCFGR at its reset value 0x24003010 or with every field programmed.
Init ==
    /\ \E hsi \in {{}, {RCC_CR_HSION_Pos, RCC_CR_HSIRDY_Pos}},
          hse \in {{}, {RCC_CR_HSEON_Pos}, {RCC_CR_HSEON_Pos, RCC_CR_HSERDY_Pos}},
          pll \in {{}, {RCC_CR_PLLON_Pos, RCC_CR_PLLRDY_Pos}},
          sw \in 0 .. 2, others \in BOOLEAN,
          sws \in {SYS_CLOCK_SOURCE_HSI, SYS_CLOCK_SOURCE_HSE, SYS_CLOCK_SOURCE_PLL},
          pllcfgr \in {{4, 12, 13, 26, 29},
                       {3, 10, 12, 14, 16, 17, 22, 24, 25, 26, 27}} :
       /\ reg = [ZeroRegs(RccRegs) EXCEPT
                   !["RCC_CR"] = hsi \cup hse \cup pll,
                   !["RCC_CFGR"] =
                       Shl(U32(sw), RCC_CFGR_SW_Pos) \cup Shl(U32(sws), RCC_CFGR_SWS_Pos)
                       \cup (IF others
                             THEN Shl(U32(9), RCC_CFGR_HPRE_Pos)
                                  \cup Shl(U32(5), RCC_CFGR_PPRE1_Pos)
                                  \cup Shl(U32(4), RCC_CFGR_PPRE2_Pos)
                                  \cup Shl(U32(3), RCC_CFGR_MCO1_Pos)
                             ELSE {}),
                   !["RCC_PLLCFGR"] = pllcfgr]
       /\ sws \in {sw, SYS_CLOCK_SOURCE_HSI}
    /\ mem \in PllParams
    /\ pc = "idle"
    /\ call = NoCall
    /\ pre = reg
    /\ done = [call |-> NoCall, ret |-> 0, repeat |-> FALSE, first |-> <<>>]
    /\ hist = [call |-> NoCall, reg |-> <<>>]
    /\ cycles = 0
    /\ ncalls = 0

Next ==
    \/ \E s \in {SYS_CLOCK_SOURCE_HSI, SYS_CLOCK_SOURCE_HSE, SYS_CLOCK_SOURCE_PLL},
          p \in {PLL_CLOCK_SRC_HSI, PLL_CLOCK_SRC_HSE} :
          RCC_System_Clock_Source_Config(s, p)
    \/ RccHsiOn
    \/ RccHsiWait
    \/ RccHseOn
    \/ RccHseWait
    \/ RccPllOff
    \/ RccPllOffWait
    \/ RccPllpStore
    \/ RccPllCfgClear
    \/ RccPllCfgWrite
    \/ RccCfgrClearPrescalers
    \/ RccPllOn
    \/ RccPllLockWait
    \/ RccSwitch
    \/ RccSwitchWait
    \/ RccReturn
    \/ HwHSIReady
    \/ HwHSEReady
    \/ HwPLLReady
    \/ HwPLLUnlock
    \/ HwSwitch

Spec == Init /\ [][Next]_vars


(***************************************************************************)
(* Claims about RCC_System_Clock_Source_Config                             *)
(***************************************************************************)
RccReturned == done.call.op = "RCC_System_Clock_Source_Config"

\* C1: when the routine returns for a requested source S, the SW field of
\* CFGR equals the encoding of S, and the read of SWS that let it return
\* equalled S.
C1_SwitchedToRequested ==
    RccReturned =>
        /\ Field(reg["RCC_CFGR"], RCC_CFGR_SW_Pos, 2) = done.call.system_clock_source
        /\ done.ret.sws_read = U32(done.call.system_clock_source)

\* C5: a configuration routine called twice in succession with the same
\* arguments leaves every register (the hardware's status bits aside) as the
\* first call left it.
C5_Idempotent ==
    done.repeat => SwView(reg) = SwView(done.first)

\* C6, first half: from the store of line 167 until the PLL-configuration
\* register has been written, the record's PLLP holds v/2 - 1 for an entry
\* value v in {2, 4, 6, 8}.
PllpStoredThenWritten ==
    (/\ call.op = "RCC_System_Clock_Source_Config"
     /\ pc \in {"L172", "L176", "L182", "L186", "L193", "L198", "L208"}
     /\ call.entry_PLLP \in {U32(2), U32(4), U32(6), U32(8)})
    => Val(mem.PLLP) = (Val(call.entry_PLLP) \div 2) - 1

\* C6, second half: on return the PLLP field of the PLL-configuration
\* register equals v/2 - 1.
PllpFieldOnReturn ==
    (/\ RccReturned
     /\ done.call.system_clock_source = SYS_CLOCK_SOURCE_PLL
     /\ done.ret.entry_PLLP \in {U32(2), U32(4), U32(6), U32(8)})
    => Field(reg["RCC_PLLCFGR"], RCC_PLLCFGR_PLLP_Pos, 2)
       = (Val(done.ret.entry_PLLP) \div 2) - 1

\* C6: with PLL requested and a record whose PLLP is v in {2, 4, 6, 8}, the
\* routine stores v/2 - 1 in the record before it writes the
\* PLL-configuration register, and on return the PLLP field of that register
\* equals v/2 - 1, whatever the registers held before.
C6_PllpEncoded == PllpStoredThenWritten /\ PllpFieldOnReturn

\* C6 witness: PLLP = 8 was requested with the PLLP field of the register
\* holding 0 before, and the routine returned with the field at 3.
C6_Witness ==
    /\ RccReturned
    /\ done.call.system_clock_source = SYS_CLOCK_SOURCE_PLL
    /\ done.ret.entry_PLLP = U32(8)
    /\ Field(pre["RCC_PLLCFGR"], RCC_PLLCFGR_PLLP_Pos, 2) = 0
    /\ Field(reg["RCC_PLLCFGR"], RCC_PLLCFGR_PLLP_Pos, 2) = 3

(***************************************************************************)
(* Order of the register operations in the PLL branch.  pc names the line  *)
(* the routine executes next, so a state with pc = "L198" is the state     *)
(* the write of lines 198-202 is made in.                                  *)
(***************************************************************************)
InPllBranch ==
    /\ call.op = "RCC_System_Clock_Source_Config"
    /\ call.system_clock_source = SYS_CLOCK_SOURCE_PLL

\* The five fields of RCC->PLLCFGR the routine programs, and the AHB, APB1
\* and APB2 prescaler fields of RCC->CFGR.
PllCfgFields ==
    RCC_PLLCFGR_PLLM_Msk \cup RCC_PLLCFGR_PLLN_Msk \cup RCC_PLLCFGR_PLLP_Msk
    \cup RCC_PLLCFGR_PLLQ_Msk \cup RCC_PLLCFGR_PLLSRC_Msk
PrescalerFields == RCC_CFGR_HPRE_Msk \cup RCC_CFGR_PPRE1_Msk \cup RCC_CFGR_PPRE2_Msk

PllCfgCleared == And(reg["RCC_PLLCFGR"], PllCfgFields) = {}
\* The word of lines 198-202 is in the register and the five fields hold
\* nothing else.
PllCfgWritten ==
    /\ PllCfgWord(mem, call.pll_clock_source) \subseteq reg["RCC_PLLCFGR"]
    /\ And(reg["RCC_PLLCFGR"], PllCfgFields) \subseteq PllCfgWord(mem, call.pll_clock_source)
PrescalersCleared == And(reg["RCC_CFGR"], PrescalerFields) = {}
PllOffAndUnlocked ==
    /\ RCC_CR_PLLON_Pos \notin reg["RCC_CR"]
    /\ RCC_CR_PLLRDY_Pos \notin reg["RCC_CR"]

\* C11 as stated: the PLL-configuration fields are written after the CFGR
\* prescaler fields are cleared, so the prescaler fields are clear in the
\* state the write is made in.
C11_AsStated ==
    (InPllBranch /\ pc = "L198") => PrescalersCleared

\* C11: in the PLL branch the PLL is disabled and PLL-ready seen clear before
\* anything else and stays so until the PLL is enabled; the PLL-configuration
\* fields are cleared, then written from the record; the CFGR prescaler
\* fields are cleared after that write; the PLL is enabled last, with the
\* fields written and the prescalers clear, and PLL-ready is seen set before
\* the clock is switched.
C11_PllBranchOrder ==
    InPllBranch =>
        /\ pc \in {"L167", "L172", "L176", "L182", "L186", "L193", "L198", "L208", "L218"}
           => PllOffAndUnlocked
        /\ pc = "L198" => PllCfgCleared
        /\ pc \in {"L208", "L218", "L221", "L225"} => PllCfgWritten
        /\ pc \in {"L218", "L221", "L225"} => PrescalersCleared
        /\ pc = "L225" => /\ RCC_CR_PLLON_Pos \in reg["RCC_CR"]
                          /\ RCC_CR_PLLRDY_Pos \in reg["RCC_CR"]

\* C11 witness: the PLL-configuration fields have been written from the
\* record, over other contents, the PLL is still off, and the CFGR prescaler
\* fields still hold what they held before the call.
C11_Witness ==
    /\ InPllBranch
    /\ pc = "L208"
    /\ PllCfgWritten
    /\ And(pre["RCC_PLLCFGR"], PllCfgFields) # And(reg["RCC_PLLCFGR"], PllCfgFields)
    /\ PllOffAndUnlocked
    /\ ~PrescalersCleared
    /\ And(reg["RCC_CFGR"], PrescalerFields) = And(pre["RCC_CFGR"], PrescalerFields)

(***************************************************************************)
(* Termination of RCC_System_Clock_Source_Config.  The routine keeps       *)
(* executing (it is the only flow of control) and the hardware             *)
(* cooperates: an enabled oscillator or PLL becomes ready, a disabled PLL  *)
(* unlocks, SWS follows a valid SW.                                        *)
(***************************************************************************)
\* A statement of the routine.
RccStep ==
    \/ RccHsiOn \/ RccHsiWait \/ RccHseOn \/ RccHseWait
    \/ RccPllOff \/ RccPllOffWait \/ RccPllpStore
    \/ RccPllCfgClear \/ RccPllCfgWrite \/ RccCfgrClearPrescalers
    \/ RccPllOn \/ RccPllLockWait \/ RccSwitch \/ RccSwitchWait \/ RccReturn

HwCooperates ==
    /\ WF_vars(HwHSIReady)
    /\ WF_vars(HwHSEReady)
    /\ WF_vars(HwPLLReady)
    /\ WF_vars(HwPLLUnlock)
    /\ WF_vars(HwSwitch)

\* The entry states of Init with one PLL record (PLLP = 8), RCC->PLLCFGR at
\* its reset value and the prescaler fields clear: every source on or off,
\* every valid SW.
InitLive ==
    /\ Init
    /\ mem.PLLP = U32(8)
    /\ reg["RCC_PLLCFGR"] = {4, 12, 13, 26, 29}
    /\ And(reg["RCC_CFGR"], PrescalerFields) = {}

SpecLive == InitLive /\ [][Next]_vars /\ WF_vars(RccStep) /\ HwCooperates

\* C12: with cooperative hardware every call of the routine, whatever the
\* requested source and whatever SW held before, eventually returns.
C12_Terminates ==
    (call.op = "RCC_System_Clock_Source_Config") ~> (pc = "idle")

(***************************************************************************)
(* usart_config: 32-bit arithmetic of the address computations             *)
(***************************************************************************)
\* a + b modulo 2^32, added in 16-bit halves.
Add(a, b) ==
    LET lo == Val(And(a, Mask(0, 16))) + Val(And(b, Mask(0, 16)))
        hi == Val(Shr(a, 16)) + Val(Shr(b, 16)) + (lo \div 65536)
    IN  Or(U32(lo % 65536), Shl(U32(hi % 65536), 16))

\* -a modulo 2^32.
Neg(a) == Add(Not(a), U32(1))

\* The word x with o * x = n modulo 2^32 for an odd o, bit by bit from
\* bit i on: what multiplying n by the inverse of o modulo 2^32 gives.
RECURSIVE MulInverse(_, _, _)
MulInverse(n, o, i) ==
    IF i = 32 THEN {}
    ELSE LET bit == n % 2
         IN  (IF bit = 1 THEN {i} ELSE {}) \cup MulInverse((n - bit * o) \div 2, o, i + 1)

\* The signed 32-bit quotient x / n, truncated towards zero, for n > 0.
SDiv(x, n) == IF 31 \in x THEN Neg(U32(Val(Neg(x)) \div n))
              ELSE U32(Val(x) \div n)

\* The odd part of a size and the power of two it is multiplied by.
RECURSIVE TwoExp(_)
TwoExp(n) == IF n % 2 = 1 THEN 0 ELSE 1 + TwoExp(n \div 2)
OddPart(n) == n \div Pow2[TwoExp(n)]

\* What the compiled image does with the operations C leaves undefined.
\*   ptrdiff: the difference p - q of two pointers whose distance is not a
\*     multiple of the element size.  "trunc" divides the byte distance and
\*     truncates (what constant folding does); "exact" is the division the
\*     compilers emit for a difference computed at run time, which takes the
\*     distance to be a multiple: shift by the power of two, multiply by the
\*     inverse of the odd part.
\*   shift: a << n with n >= 32.  "low8" shifts by the low byte of n and
\*     gives 0 from 32 on (the ARM register shift); "low5" shifts by n mod 32.
Builds == [ptrdiff : {"trunc", "exact"}, shift : {"low8", "low5"}]

\* p - q in elements of size bytes, for byte addresses p >= q.
PtrDiff(p, q, size, how) ==
    IF how = "trunc" \/ (p - q) % size = 0
    THEN U32((p - q) \div size)
    ELSE MulInverse((p - q) \div Pow2[TwoExp(size)], OddPart(size), 0)

\* a << n for a word n.
ShlBy(a, n, how) ==
    IF n \subseteq Mask(0, 5) THEN Shl(a, Val(n))
    ELSE IF how = "low5" THEN Shl(a, Val(And(n, Mask(0, 5))))
    ELSE IF Val(And(n, Mask(0, 8))) >= 32 THEN {}
    ELSE Shl(a, Val(And(n, Mask(0, 8))))

(***************************************************************************)
(* usart_config: the register map and the selectors of the descriptor      *)
(***************************************************************************)
\* Base addresses of the register blocks, as offsets from the peripheral
\* base 0x40000000, and the sizes of USART_TypeDef (7 words) and
\* GPIO_TypeDef (10 words).
PERIPH_BASE_Offset ==
    [USART1 |-> 69632, USART6 |-> 70656,
     USART2 |-> 17408, USART3 |-> 18432, UART4 |-> 19456, UART5 |-> 20480,
     GPIOA |-> 131072, GPIOB |-> 132096]
SizeofUSART_TypeDef == 28
SizeofGPIO_TypeDef == 40

USART_TXRX_MODE_RX_EN == 1
USART_TXRX_MODE_TX_EN == 2
USART_TXRX_MODE_RX_TX_BOTH_EN == 3
USART_OVERSAMPLE_BY_16 == 0
USART_OVERSAMPLE_BY_8 == 1
USART_COMPATIBLE_MODE_ASYNC == 0
USART_COMPATIBLE_MODE_SYNC == 1

GpioNames == {"GPIOA", "GPIOB"}

\* The registers usart_config reads or writes for one instance.  GPIOx is
\* the port the undeclared name of lines 87-94 stands for.
UsartRegs(instance) ==
    {"RCC_APB1ENR", "RCC_APB2ENR", "RCC_AHB1ENR",
     "GPIOA_MODER", "GPIOB_MODER",
     "GPIOA_AFR0", "GPIOA_AFR1", "GPIOB_AFR0", "GPIOB_AFR1",
     "GPIOx_OTYPER", "GPIOx_OSPEEDR", "GPIOx_PUPDR",
     R(instance, "CR1"), R(instance, "CR2"), R(instance, "BRR")}

\* GPIOA->AFR[i].
AFR(port, i) == R(port, IF i = 0 THEN "AFR0" ELSE "AFR1")

(***************************************************************************)
(* usart_config: the baud-rate block (lines 162-187)                       *)
(***************************************************************************)
MaxClk == 64
MaxBaud == 4

RECURSIVE BitLen(_)
BitLen(n) == IF n = 0 THEN 0 ELSE 1 + BitLen(n \div 2)

\* Binary long division of r / d (r < d): fraction bits are produced until
\* the quotient has the 24 significant bits of a float (sig counts them,
\* the integer part's included) or 29 fraction bits are out.
RECURSIVE LongDiv(_, _, _, _, _)
LongDiv(r, d, acc, sig, k) ==
    IF sig = 24 \/ k = 29 THEN [acc |-> acc, sig |-> sig, bits |-> k, r |-> r]
    ELSE LET bit == IF 2 * r >= d THEN 1 ELSE 0
         IN  LongDiv(2 * r - bit * d, d, 2 * acc + bit,
                     IF sig > 0 \/ bit = 1 THEN sig + 1 ELSE 0, k + 1)

\* Line 165: the quotient f / d as the float it is stored in, rounded to
\* nearest-even at 24 significant bits: int + num / 2^bits.
F32Div(f, d) ==
    LET ip == f \div d
        q == LongDiv(f % d, d, 0, BitLen(ip), 0)
        odd == (IF q.bits = 0 THEN ip ELSE q.acc) % 2 = 1
        up == q.sig = 24 /\ (2 * q.r > d \/ (2 * q.r = d /\ odd))
        num == q.acc + (IF up THEN 1 ELSE 0)
        carry == num = Pow2[q.bits]
    IN  [int |-> ip + (IF carry THEN 1 ELSE 0),
         num |-> IF carry THEN 0 ELSE num,
         bits |-> q.bits]

\* Lines 169 and 178: round((div - (int)div) * steps), halves away from zero.
RoundFrac(div, steps) ==
    (2 * div.num * steps + Pow2[div.bits]) \div Pow2[div.bits + 1]

\* Lines 165-186: the word the block leaves in BRR.
BaudWord(sys_clock, baudrate, oversample) ==
    LET baud_usart_div == F32Div(sys_clock, baudrate * 8 * (2 - oversample))
    IN  IF oversample = USART_OVERSAMPLE_BY_16
        THEN LET baud_fractn == RoundFrac(baud_usart_div, 16)
                 baud_mantissa == (IF baud_fractn > 15 THEN 1 ELSE 0)
                                  + baud_usart_div.int
             IN  Or(U32(baud_fractn), Shl(U32(baud_mantissa), 4))
        ELSE LET baud_fractn == RoundFrac(baud_usart_div, 8)
                 baud_mantissa == (IF baud_fractn > 7 THEN 1 ELSE 0)
                                  + baud_usart_div.int
             IN  Or(And(U32(baud_fractn), U32(7)), Shl(U32(baud_mantissa), 4))

\* The block exercised on its own: BRR of USART1 from the clock and the
\* descriptor in the caller's memory.
BaudRateDivisor ==
    /\ pc = "idle"
    /\ LET cfg == mem.usart_cfg
           c == [op |-> "BaudRateDivisor", sys_clock |-> mem.sys_clock,
                 baudrate |-> cfg.baudrate, oversample |-> cfg.oversample]
           brr == BaudWord(mem.sys_clock, cfg.baudrate, cfg.oversample)
           rs == [reg EXCEPT ![R(cfg.instance, "BRR")] = brr]
       IN  /\ reg' = rs
           /\ pre' = reg
           /\ Returned(c, brr, rs)
    /\ ncalls' = ncalls
    /\ UNCHANGED <<pc, call, mem, cycles>>

Clocks == (1 .. MaxClk) \cup {16000000}
BaudRates == (1 .. MaxBaud) \cup {9600}

InitBaud ==
    /\ \E f \in Clocks, b \in BaudRates,
          o \in {USART_OVERSAMPLE_BY_16, USART_OVERSAMPLE_BY_8},
          brr \in {{}, U32(1667)} :
          /\ mem = [usart_cfg |-> [instance |-> "USART1", oversample |-> o,
                                   baudrate |-> b],
                    sys_clock |-> f]
          /\ reg = [ZeroRegs({"USART1_BRR"}) EXCEPT !["USART1_BRR"] = brr]
    /\ pc = "idle"
    /\ call = NoCall
    /\ pre = reg
    /\ done = [call |-> NoCall, ret |-> 0, repeat |-> FALSE, first |-> <<>>]
    /\ hist = [call |-> NoCall, reg |-> <<>>]
    /\ cycles = 0
    /\ ncalls = 0

NextBaud == BaudRateDivisor

SpecBaud == InitBaud /\ [][NextBaud]_vars

\* C8: with 16x oversampling the mantissa field (bits 4 and up) and the
\* fractional field (bits 0..3) of the word written to the baud-rate
\* register satisfy mantissa * 16 + fractional = round(f / b), halves
\* rounded up, for every clock f and baud rate b drawn.
C8_BaudDivisor ==
    (done.call.op = "BaudRateDivisor"
     /\ done.call.oversample = USART_OVERSAMPLE_BY_16)
    => LET f == done.call.sys_clock
           b == done.call.baudrate
           brr == reg["USART1_BRR"]
       IN  Val(Shr(brr, 4)) * 16 + Field(brr, 0, 4) = (2 * f + b) \div (2 * b)

(***************************************************************************)
(* usart_config                                                            *)
(***************************************************************************)
\* Lines 43 and 54: tmp, the position of the instance among those of its
\* bus.  The divisor is a constant of the image; the dividend is computed
\* from the descriptor's pointer.
BusOffset(instance, how) ==
    LET first == IF instance \in {"USART1", "USART6"} THEN "USART1" ELSE "USART2"
        second == IF instance \in {"USART1", "USART6"} THEN "USART6" ELSE "USART3"
    IN  SDiv(PtrDiff(PERIPH_BASE_Offset[instance], PERIPH_BASE_Offset[first],
                     SizeofUSART_TypeDef, how),
             Val(PtrDiff(PERIPH_BASE_Offset[second], PERIPH_BASE_Offset[first],
                         SizeofUSART_TypeDef, "trunc")))

\* Lines 66 and 68: the index of a port, (GPIOx - GPIOA) / (GPIOB - GPIOA).
PortIndex(GPIOx, how) ==
    SDiv(PtrDiff(PERIPH_BASE_Offset[GPIOx], PERIPH_BASE_Offset["GPIOA"],
                 SizeofGPIO_TypeDef, how),
         Val(PtrDiff(PERIPH_BASE_Offset["GPIOB"], PERIPH_BASE_Offset["GPIOA"],
                     SizeofGPIO_TypeDef, "trunc")))

\* Both, evaluated once for every instance, port and image.
BusOffsets ==
    [how \in {"trunc", "exact"} |-> [instance \in UsartNames |-> BusOffset(instance, how)]]
PortIndexes ==
    [how \in {"trunc", "exact"} |-> [GPIOx \in GpioNames |-> PortIndex(GPIOx, how)]]

\* Lines 38-59: the peripheral clock of the instance.
UsartClockEnable(rs, instance, build) ==
    LET tmp == BusOffsets[build.ptrdiff][instance]
    IN  IF instance \in {"USART1", "USART6"}
        THEN OrAssign(rs, "RCC_APB2ENR",
                 Or(And(rs["RCC_APB2ENR"],
                        Not(Shl(U32(3), RCC_APB2ENR_USART1EN_Pos))),
                    ShlBy(U32(1), Add(U32(RCC_APB2ENR_USART1EN_Pos), tmp),
                          build.shift)))
        ELSE OrAssign(rs, "RCC_APB1ENR",
                 Or(And(rs["RCC_APB1ENR"],
                        Not(Shl(U32(15), RCC_APB1ENR_USART2EN_Pos))),
                    ShlBy(U32(1), Add(U32(RCC_APB1ENR_USART2EN_Pos), tmp),
                          build.shift)))

\* Lines 66 and 68: the clock of a pin's port.
GpioClockEnable(rs, GPIOx, build) ==
    OrAssign(rs, "RCC_AHB1ENR",
             ShlBy(U32(1), PortIndexes[build.ptrdiff][GPIOx], build.shift))

\* Lines 76-77 and 79-80: the pin's mode field ORed with 2.
PinModeAF(rs, GPIOx, gpio_pin) ==
    OrAssign(rs, R(GPIOx, "MODER"),
             Or(And(rs[R(GPIOx, "MODER")], Not(Shl(U32(3), gpio_pin * 2))),
                Shl(U32(2), gpio_pin * 2)))

\* Lines 83-95: output type, speed and pull of the transmit pin.
TxPinElectricals(rs, txrxmode, tx_gpio_pin) ==
    IF txrxmode \in {USART_TXRX_MODE_TX_EN, USART_TXRX_MODE_RX_TX_BOTH_EN}
    THEN LET r1 == OrAssign(rs, "GPIOx_OTYPER",
                       And(rs["GPIOx_OTYPER"], Not(Shl(U32(1), tx_gpio_pin))))
             r2 == OrAssign(r1, "GPIOx_OSPEEDR",
                       Or(And(r1["GPIOx_OSPEEDR"], Not(Shl(U32(3), tx_gpio_pin * 2))),
                          Shl(U32(3), tx_gpio_pin * 2)))
         IN  OrAssign(r2, "GPIOx_PUPDR",
                 And(r2["GPIOx_PUPDR"], Not(Shl(U32(3), tx_gpio_pin * 2))))
    ELSE rs

\* Lines 105-107 (112-114, 123-125, 130-132): the alternate-function code
\* ORed into GPIOA->AFR[pin / 8], shifted by pin * 4.
AfWrite(rs, gpio_pin, code, build) ==
    LET tmp == gpio_pin \div 8
        by == U32(gpio_pin * 4)
    IN  OrAssign(rs, AFR("GPIOA", tmp),
                 Or(And(rs[AFR("GPIOA", tmp)], Not(ShlBy(U32(15), by, build.shift))),
                    ShlBy(U32(code), by, build.shift)))

\* Lines 99-134: alternate-function muxing.
AfMux(rs, instance, txrxmode, tx_gpio_pin, rx_gpio_pin, build) ==
    LET code == IF instance \in {"USART1", "USART2", "USART3"} THEN 7 ELSE 8
    IN  IF txrxmode \in {USART_TXRX_MODE_TX_EN, USART_TXRX_MODE_RX_TX_BOTH_EN}
        THEN AfWrite(rs, tx_gpio_pin, code, build)
        ELSE IF txrxmode \in {USART_TXRX_MODE_RX_TX_BOTH_EN, USART_TXRX_MODE_RX_EN}
        THEN AfWrite(rs, rx_gpio_pin, code, build)
        ELSE rs

\* Lines 137-150: control register 1.
UsartCR1(rs, cfg) ==
    LET tmp == Shl(U32(cfg.txrxmode), USART_CR1_RE_Pos)
               \cup Shl(U32(cfg.parity_en), USART_CR1_PCE_Pos)
               \cup Shl(U32(cfg.parity), USART_CR1_PS_Pos)
               \cup Shl(U32(cfg.wordlen), USART_CR1_M_Pos)
               \cup Shl(U32(cfg.oversample), USART_CR1_OVER8_Pos)
               \cup Shl(U32(1), USART_CR1_UE_Pos)
        cleared == AndAssign(rs, R(cfg.instance, "CR1"),
                       Not(Shl(U32(3), USART_CR1_RE_Pos)
                           \cup {USART_CR1_PCE_Pos, USART_CR1_PS_Pos, USART_CR1_M_Pos,
                                 USART_CR1_OVER8_Pos, USART_CR1_UE_Pos}))
    IN  OrAssign(cleared, R(cfg.instance, "CR1"), tmp)

\* Lines 153-159: control register 2.
UsartCR2(rs, cfg) ==
    LET tmp == Shl(U32(cfg.stopbits), USART_CR2_STOP_Pos)
        cleared == AndAssign(rs, R(cfg.instance, "CR2"),
                             Not(Shl(U32(3), USART_CR2_STOP_Pos)))
    IN  OrAssign(cleared, R(cfg.instance, "CR2"), tmp)

\* Lines 162-187: the baud-rate register, under the condition of line 162.
UsartBaud(rs, cfg, sys_clock) ==
    IF /\ USART_COMPATIBLE_MODE_ASYNC = cfg.compatmode
       /\ USART_COMPATIBLE_MODE_SYNC = cfg.compatmode
    THEN [rs EXCEPT ![R(cfg.instance, "BRR")] =
              BaudWord(sys_clock, cfg.baudrate, cfg.oversample)]
    ELSE rs

\* The registers usart_config leaves.
usart_config_Regs(rs, cfg, tx_GPIOx, tx_gpio_pin, rx_GPIOx, rx_gpio_pin, sys_clock, build) ==
    LET r1 == UsartClockEnable(rs, cfg.instance, build)
        r2 == GpioClockEnable(r1, tx_GPIOx, build)
        r3 == GpioClockEnable(r2, rx_GPIOx, build)
        r4 == PinModeAF(r3, tx_GPIOx, tx_gpio_pin)
        r5 == PinModeAF(r4, rx_GPIOx, rx_gpio_pin)
        r6 == TxPinElectricals(r5, cfg.txrxmode, tx_gpio_pin)
        r7 == AfMux(r6, cfg.instance, cfg.txrxmode, tx_gpio_pin, rx_gpio_pin, build)
        r8 == UsartCR1(r7, cfg)
        r9 == UsartCR2(r8, cfg)
    IN  UsartBaud(r9, cfg, sys_clock)

\* usart_config(usart_cfg, tx_GPIOx, tx_gpio_pin, rx_GPIOx, rx_gpio_pin), with
\* the descriptor and the pins the caller holds.
usart_config ==
    /\ pc = "idle"
    /\ LET c == [op |-> "usart_config", usart_cfg |-> mem.usart_cfg,
                 tx_GPIOx |-> mem.tx_GPIOx, tx_gpio_pin |-> mem.tx_gpio_pin,
                 rx_GPIOx |-> mem.rx_GPIOx, rx_gpio_pin |-> mem.rx_gpio_pin]
           rs == usart_config_Regs(reg, mem.usart_cfg, mem.tx_GPIOx, mem.tx_gpio_pin,
                                   mem.rx_GPIOx, mem.rx_gpio_pin, mem.sys_clock,
                                   mem.build)
       IN  /\ reg' = rs
           /\ pre' = reg
           /\ Returned(c, "USART_STATUS_SUCCESS", rs)
    /\ ncalls' = ncalls
    /\ UNCHANGED <<pc, call, mem, cycles>>

\* The descriptors, pins, images and register contents usart_config may be
\* called with: every instance and mode, the transmit pin on any of the 16
\* pins of either port with the receive pin next to it, the registers
\* cleared or holding 0x55555555.
InitUsart ==
    /\ \E instance \in UsartNames,
          txrxmode \in {USART_TXRX_MODE_RX_EN, USART_TXRX_MODE_TX_EN,
                        USART_TXRX_MODE_RX_TX_BOTH_EN},
          frame \in {[parity_en |-> 0, stopbits |-> 0],
                      [parity_en |-> 1, stopbits |-> 2]},
          tx_GPIOx \in GpioNames, rx_GPIOx \in GpioNames, tx_gpio_pin \in 0 .. 15,
          build \in Builds, used \in BOOLEAN :
          /\ mem = [usart_cfg |->
                        [instance |-> instance, txrxmode |-> txrxmode,
                         parity_en |-> frame.parity_en, parity |-> 0,
                         wordlen |-> 0,
                         oversample |-> USART_OVERSAMPLE_BY_16,
                         stopbits |-> frame.stopbits,
                         compatmode |-> USART_COMPATIBLE_MODE_ASYNC,
                         baudrate |-> 9600],
                    tx_GPIOx |-> tx_GPIOx, tx_gpio_pin |-> tx_gpio_pin,
                    rx_GPIOx |-> rx_GPIOx, rx_gpio_pin |-> (tx_gpio_pin + 1) % 16,
                    sys_clock |-> 16000000, build |-> build]
          /\ reg = [r \in UsartRegs(instance) |->
                        IF used THEN {i \in Bit : i % 2 = 0} ELSE {}]
    /\ pc = "idle"
    /\ call = NoCall
    /\ pre = reg
    /\ done = [call |-> NoCall, ret |-> 0, repeat |-> FALSE, first |-> <<>>]
    /\ hist = [call |-> NoCall, reg |-> <<>>]
    /\ cycles = 0
    /\ ncalls = 0

NextUsart == usart_config

SpecUsart == InitUsart /\ [][NextUsart]_vars

(***************************************************************************)
(* Claims about usart_config                                               *)
(***************************************************************************)
UsartReturned == done.call.op = "usart_config"

\* The position of an instance among those of its bus.
BusPosition ==
    [USART1 |-> 0, USART6 |-> 1, USART2 |-> 0, USART3 |-> 1, UART4 |-> 2, UART5 |-> 3]

\* C7: usart_config sets exactly the clock-enable bit of its instance on the
\* instance's own bus (USART1, USART6: offsets 0, 1 from the USART1 enable
\* position of the APB2 enable register; USART2, USART3, UART4, UART5:
\* offsets 0..3 from the USART2 enable position of the APB1 enable register)
\* and leaves the other bus's enable register as it was.
C7_ClockEnableRouted ==
    UsartReturned =>
        LET instance == done.call.usart_cfg.instance
            apb2 == instance \in {"USART1", "USART6"}
            own == IF apb2 THEN "RCC_APB2ENR" ELSE "RCC_APB1ENR"
            other == IF apb2 THEN "RCC_APB1ENR" ELSE "RCC_APB2ENR"
            first == IF apb2 THEN RCC_APB2ENR_USART1EN_Pos
                     ELSE RCC_APB1ENR_USART2EN_Pos
        IN  /\ reg[own] = pre[own] \cup {first + BusPosition[instance]}
            /\ reg[other] = pre[other]

\* The alternate-function field of a pin: 4 bits at (pin mod 8) * 4 of the
\* register half pin / 8 of the pin's port.
AfField(rs, GPIOx, gpio_pin) ==
    Field(rs[AFR(GPIOx, gpio_pin \div 8)], (gpio_pin % 8) * 4, 4)

\* C10: on return the alternate-function field of every pin the mode
\* enables (transmit pin in transmit mode, receive pin in receive mode, both
\* in the combined mode) holds 7 for USART1, USART2, USART3 and 8 for UART4,
\* UART5, USART6, in the register half pin / 8.
C10_AlternateFunctionMuxed ==
    UsartReturned =>
        LET c == done.call
            code == IF c.usart_cfg.instance \in {"USART1", "USART2", "USART3"}
                    THEN 7 ELSE 8
        IN  /\ c.usart_cfg.txrxmode \in {USART_TXRX_MODE_TX_EN,
                                         USART_TXRX_MODE_RX_TX_BOTH_EN}
               => AfField(reg, c.tx_GPIOx, c.tx_gpio_pin) = code
            /\ c.usart_cfg.txrxmode \in {USART_TXRX_MODE_RX_EN,
                                         USART_TXRX_MODE_RX_TX_BOTH_EN}
               => AfField(reg, c.rx_GPIOx, c.rx_gpio_pin) = code

=============================================================================
